---- MODULE Spec2Model ----
(***************************************************************************)
(* Model of the `databricks libraries` commands (list, install, uninstall) *)
(* of databricks_cli/libraries/cli.py and of the option validator          *)
(* MutuallyExclusiveOption of databricks_cli/click_types.py.               *)
(*                                                                         *)
(* An option name is a Python string.  It is modelled as the sequence of   *)
(* its pieces, a separator ("_" or "-") being a piece of its own, so that  *)
(* str.replace('_', '-') is computed and not assumed.                      *)
(*                                                                         *)
(* click processes every declared parameter of a command (those given on   *)
(* the command line first, in the order given, then the others in          *)
(* declaration order) and calls the command's function once all have       *)
(* passed.  The decorators require_config and eat_exceptions and the       *)
(* transport behind databricks_cli.libraries.api are outside the model: a  *)
(* call of the API is recorded and either returns or raises.               *)
(***************************************************************************)
EXTENDS Integers, Sequences, FiniteSets, TLC

VARIABLES
    pc,         \* position of the invocation: idle, parse, done, or the exception that ended it
    cmd,        \* the command invoked: none, list, install, uninstall
    declared,   \* the option declarations of the command invoked
    opts,       \* the parser's dict: provided option name -> value
    todo,       \* the parameters whose handle_parse_result has not run yet, in processing order
    params,     \* ctx.params: parameter name -> resolved value
    raised,     \* the exception raised, [type, message]
    libraries,  \* the list `libraries` of install_cli / uninstall_cli
    api_calls,  \* the calls made to databricks_cli.libraries.api, in order
    echoed      \* what click.echo printed, in order

vars == <<pc, cmd, declared, opts, todo, params, raised, libraries, api_calls, echoed>>

\* ------------------------------------------------------------------ bounds
\* the largest number of distinct options given on one command line
MaxProvided == 4

\* ------------------------------------------------------------------ values
None == "None"

Range(s) == {s[i] : i \in DOMAIN s}

\* str.replace(old, new) for a one-character old
replace(s, old, new) == [i \in DOMAIN s |-> IF s[i] = old THEN new ELSE s[i]]

\* the parameter names, as the keyword arguments of the commands spell them
cluster_id        == <<"cluster", "_", "id">>
all               == <<"all">>
jar               == <<"jar">>
egg               == <<"egg">>
maven_coordinates == <<"maven", "_", "coordinates">>
maven_repo        == <<"maven", "_", "repo">>
maven_exclusion   == <<"maven", "_", "exclusion">>
pypi_package      == <<"pypi", "_", "package">>
pypi_repo         == <<"pypi", "_", "repo">>
cran_package      == <<"cran", "_", "package">>
cran_repo         == <<"cran", "_", "repo">>

INSTALL_OPTIONS ==
    << <<"jar">>, <<"egg">>, <<"maven", "-", "coordinates">>,
       <<"pypi", "-", "package">>, <<"cran", "-", "package">> >>

\* an option declaration: @click.option(...)
Decl(name, cls, required, default, mutually_exclusive) ==
    [name |-> name, cls |-> cls, required |-> required, default |-> default,
     mutually_exclusive |-> mutually_exclusive]

PlainOption(name)    == Decl(name, "Option", FALSE, None, <<>>)
RequiredOption(name) == Decl(name, "Option", TRUE, None, <<>>)
MultipleOption(name) == Decl(name, "Option", FALSE, <<>>, <<>>)
FlagOption(name)     == Decl(name, "Option", FALSE, FALSE, <<>>)
ExclusiveOption(name) ==
    Decl(name, "MutuallyExclusiveOption", FALSE, None, INSTALL_OPTIONS)

list_params == << PlainOption(cluster_id) >>

install_params ==
    << RequiredOption(cluster_id),
       ExclusiveOption(jar), ExclusiveOption(egg),
       ExclusiveOption(maven_coordinates),
       PlainOption(maven_repo), MultipleOption(maven_exclusion),
       ExclusiveOption(pypi_package), PlainOption(pypi_repo),
       ExclusiveOption(cran_package), PlainOption(cran_repo) >>

uninstall_params ==
    << RequiredOption(cluster_id), FlagOption(all),
       ExclusiveOption(jar), ExclusiveOption(egg),
       ExclusiveOption(maven_coordinates),
       PlainOption(maven_repo), MultipleOption(maven_exclusion),
       ExclusiveOption(pypi_package), PlainOption(pypi_repo),
       ExclusiveOption(cran_package), PlainOption(cran_repo) >>

Commands == {"list", "install", "uninstall"}

ParamsOf(c) ==
    CASE c = "list"      -> list_params
      [] c = "install"   -> install_params
      [] c = "uninstall" -> uninstall_params

\* the declaration called name among the declarations ps
DeclOf(ps, name) == CHOOSE d \in Range(ps) : d.name = name

Names(c) == [i \in DOMAIN ParamsOf(c) |-> ParamsOf(c)[i].name]

\* ------------------------------------------------------------ input values
ClusterIds == {"c1", "c2"}
Exclusions == {<<"slf4j:slf4j">>, <<"slf4j:slf4j", "*:hadoop-client">>,
               <<"*:hadoop-client", "slf4j:slf4j">>}

\* the value a command line gives to an option; --maven-exclusion is
\* repeatable and its values are collected in the order given
GivenValue(name, cid, exclusions) ==
    CASE name = cluster_id        -> cid
      [] name = all               -> TRUE
      [] name = jar               -> "libs/foo.jar"
      [] name = egg               -> "libs/bar.egg"
      [] name = maven_coordinates -> "org.jsoup:jsoup:1.7.2"
      [] name = maven_repo        -> "https://maven.example"
      [] name = maven_exclusion   -> exclusions
      [] name = pypi_package      -> "simplejson==3.8.0"
      [] name = pypi_repo         -> "https://pypi.example"
      [] name = cran_package      -> "ada"
      [] name = cran_repo         -> "https://cran.example"

\* the command lines: at most MaxProvided distinct options of the command, in any order
ArgvOrders(c) ==
    UNION { { s \in [1..k -> Range(Names(c))] :
                \A i, j \in 1..k : i # j => s[i] # s[j] } : k \in 0..MaxProvided }

\* ---------------------------------------------------------------- errors
NoError == [type |-> "None", message |-> <<>>]

UsageError(message) == [type |-> "UsageError", message |-> message]

\* -------------------------------- MutuallyExclusiveOption.handle_parse_result
\* a variant of cleaned_opts that keeps the names as the parser spells them
cleaned_opts_as_given(o) == DOMAIN o

cleaned_opts(o) == {replace(k, "_", "-") : k \in DOMAIN o}

cleaned_name(self) == replace(self.name, "_", "-")

\* a variant of TooMany that only fires for an option that was given itself
TooMany_own_name(self, o) ==
    /\ cleaned_name(self) \in cleaned_opts(o)
    /\ Cardinality(Range(self.mutually_exclusive) \cap cleaned_opts(o)) > 1

\* a variant of TooMany that is off by one
TooMany_off_by_one(self, o) ==
    Cardinality(Range(self.mutually_exclusive) \cap cleaned_opts(o)) > 2

\* len(set(self.mutually_exclusive).intersection(cleaned_opts)) > 1
TooMany(self, o) ==
    Cardinality(Range(self.mutually_exclusive) \cap cleaned_opts(o)) > 1

\* set(self.mutually_exclusive).isdisjoint(cleaned_opts)
TooFew(self, o) ==
    Range(self.mutually_exclusive) \cap cleaned_opts(o) = {}

\* a variant of other_opts that compares with the name as declared
other_opts_raw_name(self) ==
    SelectSeq(self.mutually_exclusive, LAMBDA opt : opt # self.name)

other_opts(self) ==
    SelectSeq(self.mutually_exclusive, LAMBDA opt : opt # cleaned_name(self))

\* a variant of missing_options that lists the other options only
missing_options_others(self) ==
    [i \in DOMAIN other_opts(self) |-> <<"--">> \o other_opts(self)[i]]

missing_options(self) ==
    [i \in DOMAIN self.mutually_exclusive |-> <<"--">> \o self.mutually_exclusive[i]]

\* a variant of Check that only looks for a missing option
Check_only_missing(self, o) ==
    IF TooFew(self, o)
    THEN UsageError(<<"Missing one of ", missing_options(self), ".">>)
    ELSE NoError

\* the exception the check of option self raises on the parser's dict o
\* (the message's pieces; the back quotes around the name are left out)
Check(self, o) ==
    IF TooMany(self, o)
    THEN UsageError(<<"Illegal usage: ", cleaned_name(self),
                      " is mutually exclusive with arguments ",
                      other_opts(self), ".">>)
    ELSE IF TooFew(self, o)
    THEN UsageError(<<"Missing one of ", missing_options(self), ".">>)
    ELSE NoError

\* click's Option.handle_parse_result: the value given, else the default;
\* a required option without a value is a usage error
ResolvedValue(self, o) ==
    IF self.name \in DOMAIN o THEN o[self.name] ELSE self.default

MissingRequired(self, o) == self.required /\ self.name \notin DOMAIN o

\* ------------------------------------------------------------- remote API
Raise == [raised |-> TRUE, value |-> None]
Return(v) == [raised |-> FALSE, value |-> v]

LibraryStatus == [library |-> [jar |-> "libs/foo.jar"], status |-> "INSTALLED"]

\* what cluster_status(cluster_id) can answer
ClusterStatusResults(cid) ==
    { Raise,
      Return([cluster_id |-> cid]),
      Return([cluster_id |-> cid, library_statuses |-> <<LibraryStatus>>]) }

\* what all_cluster_statuses() can answer
AllClusterStatusesResults ==
    { Raise,
      Return([statuses |-> <<>>]),
      Return([statuses |-> <<[cluster_id |-> "c1", library_statuses |-> <<LibraryStatus>>]>>]) }

\* install_libraries and uninstall_libraries answer nothing, or raise
NoResultResults == { Raise, Return(None) }

Call(fn, args, ret) == [fn |-> fn, args |-> args, ret |-> ret]

pretty_format(obj) == <<"pretty_format", obj>>

\* ------------------------------------------------------------------- Init
Init ==
    /\ pc = "idle"
    /\ cmd = "none"
    /\ declared = <<>>
    /\ opts = <<>>
    /\ todo = <<>>
    /\ params = <<>>
    /\ raised = NoError
    /\ libraries = <<>>
    /\ api_calls = <<>>
    /\ echoed = <<>>

\* The command line is parsed: the parser fills opts with the options given,
\* and the parameters are processed in the order given, then the others in
\* declaration order.
Invoke ==
    /\ pc = "idle"
    /\ \E c \in Commands, cid \in ClusterIds, ex \in Exclusions :
         \E order \in ArgvOrders(c) :
            /\ cmd' = c
            /\ declared' = ParamsOf(c)
            /\ opts' = [n \in Range(order) |-> GivenValue(n, cid, ex)]
            /\ todo' = order \o SelectSeq(Names(c), LAMBDA n : n \notin Range(order))
    /\ pc' = "parse"
    /\ params' = <<>>
    /\ UNCHANGED <<raised, libraries, api_calls, echoed>>

\* the base handling every option ends with
Option_handle_parse_result(self) ==
    IF MissingRequired(self, opts)
    THEN /\ pc' = "UsageError"
         /\ raised' = UsageError(<<"Missing option ", <<"--">> \o cleaned_name(self), ".">>)
         /\ UNCHANGED <<todo, params>>
    ELSE /\ params' = (self.name :> ResolvedValue(self, opts)) @@ params
         /\ todo' = Tail(todo)
         /\ UNCHANGED <<pc, raised>>

\* handle_parse_result of an option declared without cls
handle_parse_result_Option ==
    /\ pc = "parse"
    /\ todo # <<>>
    /\ LET self == DeclOf(declared, Head(todo)) IN
         /\ self.cls = "Option"
         /\ Option_handle_parse_result(self)
    /\ UNCHANGED <<cmd, declared, opts, libraries, api_calls, echoed>>

\* MutuallyExclusiveOption.handle_parse_result
handle_parse_result ==
    /\ pc = "parse"
    /\ todo # <<>>
    /\ LET self == DeclOf(declared, Head(todo)) IN
         /\ self.cls = "MutuallyExclusiveOption"
         /\ IF Check(self, opts).type # "None"
            THEN /\ pc' = "UsageError"
                 /\ raised' = Check(self, opts)
                 /\ UNCHANGED <<todo, params>>
            ELSE Option_handle_parse_result(self)
    /\ UNCHANGED <<cmd, declared, opts, libraries, api_calls, echoed>>

\* ------------------------------------------------------------ the commands
\* maven_library, pypi_library, cran_library: install_cli and uninstall_cli
\* build them with the same statements

\* a variant of maven_library that tests the exclusion list against None
maven_library_not_none(p) ==
    LET m1 == [coordinates |-> p[maven_coordinates]]
        m2 == IF p[maven_repo] # None
              THEN [repo |-> p[maven_repo]] @@ m1 ELSE m1
    IN [maven |-> [exclusions |-> p[maven_exclusion]] @@ m2]

maven_library(p) ==
    LET maven_exclusion_list == p[maven_exclusion]
        m1 == [coordinates |-> p[maven_coordinates]]
        m2 == IF p[maven_repo] # None
              THEN [repo |-> p[maven_repo]] @@ m1 ELSE m1
        m3 == IF Len(maven_exclusion_list) > 0
              THEN [exclusions |-> maven_exclusion_list] @@ m2 ELSE m2
    IN [maven |-> m3]

\* a variant of pypi_library that always stores the repo
pypi_library_always_repo(p) ==
    [pypi |-> [package |-> p[pypi_package], repo |-> p[pypi_repo]]]

pypi_library(p) ==
    LET l1 == [package |-> p[pypi_package]]
        l2 == IF p[pypi_repo] # None
              THEN [repo |-> p[pypi_repo]] @@ l1 ELSE l1
    IN [pypi |-> l2]

cran_library(p) ==
    LET l1 == [package |-> p[cran_package]]
        l2 == IF p[cran_repo] # None
              THEN [repo |-> p[cran_repo]] @@ l1 ELSE l1
    IN [cran |-> l2]

\* a variant of install_libraries_list written with if in place of elif
install_libraries_list_every(p) ==
    (IF p[jar] # None THEN << [jar |-> p[jar]] >> ELSE <<>>)
    \o (IF p[egg] # None THEN << [egg |-> p[egg]] >> ELSE <<>>)
    \o (IF p[maven_coordinates] # None THEN << maven_library(p) >> ELSE <<>>)
    \o (IF p[pypi_package] # None THEN << pypi_library(p) >> ELSE <<>>)
    \o (IF p[cran_package] # None THEN << cran_library(p) >> ELSE <<>>)

\* a variant of install_libraries_list that tests egg before jar
install_libraries_list_egg_first(p) ==
    IF p[egg] # None THEN << [egg |-> p[egg]] >>
    ELSE IF p[jar] # None THEN << [jar |-> p[jar]] >>
    ELSE IF p[maven_coordinates] # None THEN << maven_library(p) >>
    ELSE IF p[pypi_package] # None THEN << pypi_library(p) >>
    ELSE IF p[cran_package] # None THEN << cran_library(p) >>
    ELSE <<>>

\* the list `libraries` install_cli has built when it reaches its assert
install_libraries_list(p) ==
    IF p[jar] # None THEN << [jar |-> p[jar]] >>
    ELSE IF p[egg] # None THEN << [egg |-> p[egg]] >>
    ELSE IF p[maven_coordinates] # None THEN << maven_library(p) >>
    ELSE IF p[pypi_package] # None THEN << pypi_library(p) >>
    ELSE IF p[cran_package] # None THEN << cran_library(p) >>
    ELSE <<>>

\* the list `libraries` uninstall_cli (without --all) has built when it reaches its assert
uninstall_libraries_list(p) ==
    IF p[jar] # None THEN << [jar |-> p[jar]] >>
    ELSE IF p[egg] # None THEN << [egg |-> p[egg]] >>
    ELSE IF p[maven_coordinates] # None THEN << maven_library(p) >>
    ELSE IF p[pypi_package] # None THEN << pypi_library(p) >>
    ELSE IF p[cran_package] # None THEN << cran_library(p) >>
    ELSE <<>>

AssertionError(message) == [type |-> "AssertionError", message |-> <<message>>]

\* the exception of a failed call of the remote API
UpstreamError == [type |-> "UpstreamError", message |-> <<>>]

\* what _cluster_status hands back to its caller: it has no return statement
cluster_status_returned == None

\* _uninstall_cli_exit_help
uninstall_cli_exit_help(cid) ==
    << <<"WARNING: Uninstalling libraries requires a cluster restart.">>,
       <<"databricks clusters restart --cluster-id ", cid>> >>

\* calling the command's function with the resolved parameters
Ready(c) == pc = "parse" /\ todo = <<>> /\ cmd = c

install_cli ==
    /\ Ready("install")
    /\ libraries' = install_libraries_list(params)
    /\ IF Len(libraries') # 1
       THEN /\ pc' = "AssertionError"
            /\ raised' = AssertionError("Should have one library to install.")
            /\ UNCHANGED api_calls
       ELSE \E ret \in NoResultResults :
            /\ api_calls' = Append(api_calls,
                   Call("install_libraries", <<params[cluster_id], libraries'>>, ret))
            /\ pc' = IF ret.raised THEN "UpstreamError" ELSE "done"
            /\ raised' = IF ret.raised THEN UpstreamError ELSE raised
    /\ UNCHANGED <<cmd, declared, opts, todo, params, echoed>>

\* the --all branch of uninstall_cli
uninstall_all ==
    \E ret \in ClusterStatusResults(params[cluster_id]) :
       LET status_call == Call("cluster_status", <<params[cluster_id]>>, ret)
           status == cluster_status_returned
       IN
       IF ret.raised
       THEN /\ api_calls' = Append(api_calls, status_call)
            /\ pc' = "UpstreamError"
            /\ raised' = UpstreamError
            /\ UNCHANGED <<libraries, echoed>>
       ELSE IF status = None
       THEN \* None has no attribute get
            /\ api_calls' = Append(api_calls, status_call)
            /\ echoed' = Append(echoed, pretty_format(ret.value))
            /\ pc' = "AttributeError"
            /\ raised' = [type |-> "AttributeError", message |-> <<"get">>]
            /\ UNCHANGED libraries
       ELSE \E ret2 \in NoResultResults :
            LET library_statuses ==
                    IF "library_statuses" \in DOMAIN status
                    THEN status.library_statuses ELSE <<>>
            IN
            /\ libraries' = [i \in DOMAIN library_statuses |-> library_statuses[i].library]
            /\ api_calls' = api_calls \o
                   << status_call,
                      Call("uninstall_libraries", <<params[cluster_id], libraries'>>, ret2) >>
            /\ echoed' = <<pretty_format(ret.value)>> \o
                   (IF ret2.raised THEN <<>> ELSE uninstall_cli_exit_help(params[cluster_id]))
            /\ pc' = IF ret2.raised THEN "UpstreamError" ELSE "done"
            /\ raised' = IF ret2.raised THEN UpstreamError ELSE raised

uninstall_cli ==
    /\ Ready("uninstall")
    /\ IF params[all]
       THEN uninstall_all
       ELSE /\ libraries' = uninstall_libraries_list(params)
            /\ IF Len(libraries') # 1
               THEN /\ pc' = "AssertionError"
                    /\ raised' = AssertionError("Should have one library to uninstall.")
                    /\ UNCHANGED <<api_calls, echoed>>
               ELSE \E ret \in NoResultResults :
                    /\ api_calls' = Append(api_calls,
                           Call("uninstall_libraries", <<params[cluster_id], libraries'>>, ret))
                    /\ echoed' = IF ret.raised THEN echoed
                                 ELSE echoed \o uninstall_cli_exit_help(params[cluster_id])
                    /\ pc' = IF ret.raised THEN "UpstreamError" ELSE "done"
                    /\ raised' = IF ret.raised THEN UpstreamError ELSE raised
    /\ UNCHANGED <<cmd, declared, opts, todo, params>>

\* a variant of list_cli with the two branches exchanged
list_cli_exchanged ==
    /\ Ready("list")
    /\ IF params[cluster_id] = None
       THEN \E ret \in ClusterStatusResults(params[cluster_id]) :
            /\ api_calls' = Append(api_calls,
                   Call("cluster_status", <<params[cluster_id]>>, ret))
            /\ echoed' = IF ret.raised THEN echoed
                         ELSE Append(echoed, pretty_format(ret.value))
            /\ pc' = IF ret.raised THEN "UpstreamError" ELSE "done"
            /\ raised' = IF ret.raised THEN UpstreamError ELSE raised
       ELSE \E ret \in AllClusterStatusesResults :
            /\ api_calls' = Append(api_calls, Call("all_cluster_statuses", <<>>, ret))
            /\ echoed' = IF ret.raised THEN echoed
                         ELSE Append(echoed, pretty_format(ret.value))
            /\ pc' = IF ret.raised THEN "UpstreamError" ELSE "done"
            /\ raised' = IF ret.raised THEN UpstreamError ELSE raised
    /\ UNCHANGED <<cmd, declared, opts, todo, params, libraries>>

list_cli ==
    /\ Ready("list")
    /\ IF params[cluster_id] # None
       THEN \E ret \in ClusterStatusResults(params[cluster_id]) :
            /\ api_calls' = Append(api_calls,
                   Call("cluster_status", <<params[cluster_id]>>, ret))
            /\ echoed' = IF ret.raised THEN echoed
                         ELSE Append(echoed, pretty_format(ret.value))
            /\ pc' = IF ret.raised THEN "UpstreamError" ELSE "done"
            /\ raised' = IF ret.raised THEN UpstreamError ELSE raised
       ELSE \E ret \in AllClusterStatusesResults :
            /\ api_calls' = Append(api_calls, Call("all_cluster_statuses", <<>>, ret))
            /\ echoed' = IF ret.raised THEN echoed
                         ELSE Append(echoed, pretty_format(ret.value))
            /\ pc' = IF ret.raised THEN "UpstreamError" ELSE "done"
            /\ raised' = IF ret.raised THEN UpstreamError ELSE raised
    /\ UNCHANGED <<cmd, declared, opts, todo, params, libraries>>

Next ==
    \/ Invoke
    \/ handle_parse_result_Option
    \/ handle_parse_result
    \/ install_cli
    \/ uninstall_cli
    \/ list_cli

Spec == Init /\ [][Next]_vars

\* --------------------------------------------- the builder on any selection
\* The function of install or uninstall called with any keyword arguments:
\* each variant and each optional field a value or None.
VariantChoice(name) == {None, GivenValue(name, "c1", <<>>)}

CallCommand ==
    /\ pc = "idle"
    /\ \E c \in {"install", "uninstall"}, cid \in ClusterIds, a \in BOOLEAN,
          j \in VariantChoice(jar), e \in VariantChoice(egg),
          mc \in VariantChoice(maven_coordinates), mr \in VariantChoice(maven_repo),
          me \in Exclusions \cup {<<>>},
          pp \in VariantChoice(pypi_package), pr \in VariantChoice(pypi_repo),
          cp \in VariantChoice(cran_package), cr \in VariantChoice(cran_repo) :
         /\ cmd' = c
         /\ params' = (cluster_id :> cid) @@ (jar :> j) @@ (egg :> e)
                @@ (maven_coordinates :> mc) @@ (maven_repo :> mr)
                @@ (maven_exclusion :> me) @@ (pypi_package :> pp)
                @@ (pypi_repo :> pr) @@ (cran_package :> cp) @@ (cran_repo :> cr)
                @@ (IF c = "uninstall" THEN (all :> a) ELSE <<>>)
    /\ pc' = "parse"
    /\ UNCHANGED <<declared, opts, todo, raised, libraries, api_calls, echoed>>

NextBuilder ==
    \/ CallCommand
    \/ install_cli
    \/ uninstall_cli

SpecBuilder == Init /\ [][NextBuilder]_vars

\* ------------------------------------- the validator on any declared group
\* the largest number of members of a declared group
MaxGroup == 3

\* the names a group can be declared with, and the names of the options
GroupNames == {<<"jar">>, <<"egg">>, <<"maven", "-", "coordinates">>,
               <<"maven", "_", "coordinates">>}
OptionNames == {jar, egg, maven_coordinates}

Groups == UNION { [1..k -> GroupNames] : k \in 1..MaxGroup }

\* An option declared with cls=MutuallyExclusiveOption and any group, and a
\* parser's dict, ready for the option's handle_parse_result.
DeclareOption ==
    /\ pc = "idle"
    /\ \E group \in Groups, name \in OptionNames, given \in SUBSET OptionNames :
         /\ declared' = << Decl(name, "MutuallyExclusiveOption", FALSE, None, group) >>
         /\ opts' = [n \in given |-> GivenValue(n, "c1", <<>>)]
         /\ todo' = <<name>>
    /\ cmd' = "option"
    /\ pc' = "parse"
    /\ params' = <<>>
    /\ UNCHANGED <<raised, libraries, api_calls, echoed>>

NextValidator ==
    \/ DeclareOption
    \/ handle_parse_result

SpecValidator == Init /\ [][NextValidator]_vars

\* ================================================================ properties
\* the group options of a command
ExclusiveDecls(c) == {d \in Range(ParamsOf(c)) : d.cls = "MutuallyExclusiveOption"}

GroupCommand == cmd \in {"install", "uninstall"}

\* the flag of the command line that fills a keyword argument
FlagOf(name) ==
    CASE name = jar               -> <<"jar">>
      [] name = egg               -> <<"egg">>
      [] name = maven_coordinates -> <<"maven", "-", "coordinates">>
      [] name = pypi_package      -> <<"pypi", "-", "package">>
      [] name = cran_package      -> <<"cran", "-", "package">>

\* the members of the group given on the command line
GroupProvided ==
    {FlagOf(n) : n \in {k \in {jar, egg, maven_coordinates, pypi_package, cran_package} :
                          k \in DOMAIN opts}}

\* the check of option d has run and delegated to the base handling
ValidatorPassed(d) == d.name \in DOMAIN params

\* the check of option d has run and raised
ValidatorRaised(d) == pc = "UsageError" /\ todo # <<>> /\ Head(todo) = d.name

AllFive ==
    << <<"jar">>, <<"egg">>, <<"maven", "-", "coordinates">>,
       <<"pypi", "-", "package">>, <<"cran", "-", "package">> >>

AllFiveFlags ==
    << <<"--", "jar">>, <<"--", "egg">>, <<"--", "maven", "-", "coordinates">>,
       <<"--", "pypi", "-", "package">>, <<"--", "cran", "-", "package">> >>

\* C1: the check of a group option passes (raises nothing and delegates to
\* the base handling) if and only if exactly one member of the group is
\* provided; with zero members or with two or more it raises a UsageError.
C1_PassIffExactlyOne ==
    GroupCommand =>
      \A d \in ExclusiveDecls(cmd) :
        /\ (Check(d, opts).type = "None") <=> (Cardinality(GroupProvided) = 1)
        /\ Check(d, opts).type \in {"None", "UsageError"}
        /\ ValidatorPassed(d) => Cardinality(GroupProvided) = 1
        /\ ValidatorRaised(d) =>
             /\ raised.type = "UsageError"
             /\ Cardinality(GroupProvided) # 1

C1_Witness ==
    /\ cmd = "install"
    /\ GroupProvided = {<<"pypi", "-", "package">>}
    /\ ValidatorPassed(ExclusiveOption(egg))
    /\ ValidatorPassed(ExclusiveOption(pypi_package))

\* the TooMany message for the option with flag f
TooManyMessage(f) ==
    <<"Illegal usage: ", f, " is mutually exclusive with arguments ",
      SelectSeq(AllFive, LAMBDA g : g # f), ".">>

\* C2: when more than one member of the group is provided, the check run for
\* an option raises the TooMany usage error, which names that option and
\* lists the members of the group other than it, in group order; checked on
\* jar it lists egg, maven-coordinates, pypi-package, cran-package.
C2_TooManyListsTheOthers ==
    (GroupCommand /\ Cardinality(GroupProvided) > 1) =>
      \A d \in ExclusiveDecls(cmd) :
        /\ Check(d, opts) = UsageError(TooManyMessage(FlagOf(d.name)))
        /\ ~ValidatorPassed(d)
        /\ ValidatorRaised(d) => raised = UsageError(TooManyMessage(FlagOf(d.name)))
        /\ d.name = jar =>
             Check(d, opts).message[4] =
                << <<"egg">>, <<"maven", "-", "coordinates">>,
                   <<"pypi", "-", "package">>, <<"cran", "-", "package">> >>

C2_Witness ==
    /\ cmd = "install"
    /\ {<<"jar">>, <<"maven", "-", "coordinates">>} \subseteq GroupProvided
    /\ ValidatorRaised(ExclusiveOption(maven_coordinates))
    /\ raised.message[2] = <<"maven", "-", "coordinates">>
    /\ raised.message[4] =
         << <<"jar">>, <<"egg">>, <<"pypi", "-", "package">>, <<"cran", "-", "package">> >>

\* C3: when no member of the group is provided, the check raises the TooFew
\* usage error 'Missing one of', which lists every member of the group with
\* the -- prefix, whichever option of the group the check is run for.
C3_TooFewListsAll ==
    (GroupCommand /\ GroupProvided = {}) =>
      \A d \in ExclusiveDecls(cmd) :
        /\ Check(d, opts) = UsageError(<<"Missing one of ", AllFiveFlags, ".">>)
        /\ ~ValidatorPassed(d)
        /\ ValidatorRaised(d) =>
             raised = UsageError(<<"Missing one of ", AllFiveFlags, ".">>)

C3_Witness ==
    /\ cmd = "install"
    /\ GroupProvided = {}
    /\ cluster_id \in DOMAIN opts
    /\ ValidatorRaised(ExclusiveOption(jar))
    /\ raised.message[1] = "Missing one of "
    /\ Len(raised.message[2]) = 5

\* C4: in an invocation of install, install_libraries is called at most once,
\* only after the check of every group option has passed, so only when
\* exactly one group option was given; it receives the given cluster id and
\* a list of exactly one descriptor, the one built; after a usage error the
\* remote API has not been called.
C4_ValidateBuildCall ==
    cmd = "install" =>
      /\ Len(api_calls) <= 1
      /\ pc = "UsageError" => api_calls = <<>> /\ libraries = <<>>
      /\ api_calls # <<>> =>
           /\ \A d \in ExclusiveDecls(cmd) : ValidatorPassed(d)
           /\ todo = <<>>
           /\ Cardinality(GroupProvided) = 1
           /\ api_calls[1].fn = "install_libraries"
           /\ api_calls[1].args[1] = opts[cluster_id]
           /\ Len(api_calls[1].args[2]) = 1
           /\ api_calls[1].args[2] = libraries
      /\ pc = "done" => Len(api_calls) = 1

C4_Witness ==
    /\ cmd = "install"
    /\ pc = "done"
    /\ Len(api_calls) = 1
    /\ api_calls[1].args = <<"c2", << [egg |-> "libs/bar.egg"] >> >>

\* the variants in the order of the builder's precedence, and their tags
Variants == <<jar, egg, maven_coordinates, pypi_package, cran_package>>
Tags == <<"jar", "egg", "maven", "pypi", "cran">>

\* the positions of the variants whose value is not None
NonAbsent(p) == {i \in 1..5 : p[Variants[i]] # None}

Min(S) == CHOOSE i \in S : \A j \in S : i <= j

\* the body of install_cli, or of uninstall_cli without --all, has run
BuilderRan ==
    /\ GroupCommand
    /\ pc \notin {"idle", "parse", "UsageError"}
    /\ cmd = "uninstall" => ~params[all]

\* C5 as stated: when zero or more than one of the variant values reaching
\* the body is not None, the builder fails fatally and the remote API is not
\* called.
C5_FailsUnlessExactlyOne ==
    (BuilderRan /\ Cardinality(NonAbsent(params)) # 1) =>
        /\ pc = "AssertionError"
        /\ api_calls = <<>>

\* C5 amended: when none of the variant values is not None, the builder fails
\* fatally (AssertionError) and the remote API is not called; when more than
\* one is not None it does not fail: it builds one descriptor, that of the
\* first of them in the order jar, egg, maven, pypi, cran, and calls the
\* remote API with it.
C5_FailsOnlyOnNone ==
    BuilderRan =>
        /\ NonAbsent(params) = {} =>
             /\ pc = "AssertionError"
             /\ raised.type = "AssertionError"
             /\ libraries = <<>>
             /\ api_calls = <<>>
             /\ echoed = <<>>
        /\ Cardinality(NonAbsent(params)) > 1 =>
             /\ pc \in {"done", "UpstreamError"}
             /\ Len(api_calls) = 1
             /\ api_calls[1].args[2] = libraries
             /\ Len(libraries) = 1
             /\ DOMAIN libraries[1] = {Tags[Min(NonAbsent(params))]}

C5_Witness ==
    /\ cmd = "install"
    /\ BuilderRan
    /\ NonAbsent(params) = {}
    /\ params[maven_repo] # None
    /\ pc = "AssertionError"

\* C6: for every selection with at least one variant value that is not None,
\* the descriptor's tag is that of the first such value in the order jar,
\* egg, maven, pypi, cran; with exactly one it is the tag of that one.
C6_FirstInPriorityOrder ==
    (BuilderRan /\ NonAbsent(params) # {}) =>
        /\ Len(libraries) = 1
        /\ DOMAIN libraries[1] = {Tags[Min(NonAbsent(params))]}
        /\ \A i \in 1..5 : NonAbsent(params) = {i} => DOMAIN libraries[1] = {Tags[i]}

C6_Witness ==
    /\ cmd = "install"
    /\ BuilderRan
    /\ NonAbsent(params) = {2, 4, 5}
    /\ DOMAIN libraries[1] = {"egg"}

\* install_cli or uninstall_cli has built its list
Built == GroupCommand /\ libraries # <<>>

Given(name) == name \in DOMAIN opts

\* C7: the built descriptor has exactly one top-level key, one of the five
\* tags; for jar and egg its value is the path given; for pypi and cran it
\* has package, and repo if and only if the matching repo option was given;
\* no optional field that was not given has a key, and the sub-options of
\* another variant add nothing.
C7_DescriptorShape ==
    Built =>
      LET d == libraries[1] IN
        /\ Len(libraries) = 1
        /\ Cardinality(DOMAIN d) = 1
        /\ DOMAIN d \subseteq Range(Tags)
        /\ Given(jar) => DOMAIN d = {"jar"} /\ d.jar = "libs/foo.jar" /\ d.jar = opts[jar]
        /\ Given(egg) => DOMAIN d = {"egg"} /\ d.egg = opts[egg]
        /\ Given(pypi_package) =>
             /\ DOMAIN d = {"pypi"}
             /\ d.pypi = IF Given(pypi_repo)
                         THEN [package |-> opts[pypi_package], repo |-> opts[pypi_repo]]
                         ELSE [package |-> "simplejson==3.8.0"]
        /\ Given(cran_package) =>
             /\ DOMAIN d = {"cran"}
             /\ d.cran = IF Given(cran_repo)
                         THEN [package |-> opts[cran_package], repo |-> opts[cran_repo]]
                         ELSE [package |-> opts[cran_package]]
        /\ Given(maven_coordinates) =>
             /\ DOMAIN d = {"maven"}
             /\ "coordinates" \in DOMAIN d.maven
             /\ "repo" \in DOMAIN d.maven <=> Given(maven_repo)
             /\ "exclusions" \in DOMAIN d.maven <=> Given(maven_exclusion)

C7_Witness ==
    /\ cmd = "install"
    /\ pc = "done"
    /\ DOMAIN opts = {cluster_id, pypi_package, maven_repo, cran_repo}
    /\ libraries = << [pypi |-> [package |-> "simplejson==3.8.0"]] >>

\* C8: for a maven-coordinates selection the value under maven has exactly
\* the keys coordinates, repo if and only if --maven-repo was given, and
\* exclusions if and only if the list of --maven-exclusion values is not
\* empty; exclusions holds the values in the order given.
C8_MavenKeys ==
    (Built /\ Given(maven_coordinates)) =>
      LET d == libraries[1]
          c == opts[maven_coordinates]
          no_exclusion == params[maven_exclusion] = <<>>
      IN
        /\ DOMAIN d = {"maven"}
        /\ no_exclusion <=> ~Given(maven_exclusion)
        /\ (Given(maven_repo) /\ ~no_exclusion) =>
             d.maven = [coordinates |-> c, repo |-> opts[maven_repo],
                        exclusions |-> opts[maven_exclusion]]
        /\ (~Given(maven_repo) /\ ~no_exclusion) =>
             d.maven = [coordinates |-> c, exclusions |-> opts[maven_exclusion]]
        /\ (Given(maven_repo) /\ no_exclusion) =>
             d.maven = [coordinates |-> c, repo |-> opts[maven_repo]]
        /\ (~Given(maven_repo) /\ no_exclusion) =>
             d.maven = [coordinates |-> c]

C8_Witness ==
    /\ cmd = "uninstall"
    /\ pc = "done"
    /\ libraries = << [maven |-> [coordinates |-> "org.jsoup:jsoup:1.7.2",
                                  repo |-> "https://maven.example",
                                  exclusions |-> <<"*:hadoop-client", "slf4j:slf4j">>]] >>

\* the libraries of the entries of a cluster status
LibrariesOf(status) ==
    IF "library_statuses" \in DOMAIN status
    THEN [i \in DOMAIN status.library_statuses |-> status.library_statuses[i].library]
    ELSE <<>>

\* C9: uninstall invoked with --cluster-id and --all reads the cluster's
\* status, calls uninstall_libraries once with the cluster id and the library
\* of every entry of library_statuses (none when the key is missing), then
\* prints the restart warning, and builds no descriptor from the variant flags
\* (stated for the command lines that pass the parsing).
C9_UninstallAll ==
    (cmd = "uninstall" /\ Given(all) /\ Given(cluster_id)
        /\ pc \notin {"idle", "parse", "UsageError"}) =>
        /\ pc \in {"done", "UpstreamError"}
        /\ Len(api_calls) >= 1
        /\ api_calls[1].fn = "cluster_status"
        /\ api_calls[1].args = <<opts[cluster_id]>>
        /\ ~api_calls[1].ret.raised =>
             /\ Len(api_calls) = 2
             /\ api_calls[2].fn = "uninstall_libraries"
             /\ api_calls[2].args = <<opts[cluster_id], LibrariesOf(api_calls[1].ret.value)>>
             /\ ~api_calls[2].ret.raised =>
                  /\ pc = "done"
                  /\ SubSeq(echoed, Len(echoed) - 1, Len(echoed))
                        = uninstall_cli_exit_help(opts[cluster_id])

\* C10: list shows exactly one status: with --cluster-id it calls
\* cluster_status with that id and prints its answer, and never calls
\* all_cluster_statuses; without it it calls all_cluster_statuses and prints
\* its answer, and never calls cluster_status.
C10_ListOneStatus ==
    cmd = "list" =>
        /\ Len(api_calls) <= 1
        /\ Len(echoed) <= 1
        /\ pc \in {"parse", "done", "UpstreamError"}
        /\ pc \in {"done", "UpstreamError"} => Len(api_calls) = 1
        /\ \A i \in DOMAIN api_calls :
             IF Given(cluster_id)
             THEN /\ api_calls[i].fn = "cluster_status"
                  /\ api_calls[i].args = <<opts[cluster_id]>>
             ELSE /\ api_calls[i].fn = "all_cluster_statuses"
                  /\ api_calls[i].args = <<>>
        /\ pc = "done" => echoed = << <<"pretty_format", api_calls[1].ret.value>> >>
        /\ pc = "UpstreamError" => echoed = <<>>

C10_Witness ==
    /\ cmd = "list"
    /\ pc = "done"
    /\ Given(cluster_id)
    /\ api_calls[1].fn = "cluster_status"
    /\ api_calls[1].args = <<"c2">>
    /\ "library_statuses" \in DOMAIN echoed[1][2]

\* the verdict of a check: ok, TooMany or TooFew
Verdict(e) ==
    IF e.type = "None" THEN "ok"
    ELSE IF e.message[1] = "Illegal usage: " THEN "TooMany"
    ELSE IF e.message[1] = "Missing one of " THEN "TooFew"
    ELSE "other"

\* the parser's dict with its values forgotten: the set of names given
NamesOnly(o) == [n \in DOMAIN o |-> None]

\* C11: validation is order-independent: the verdict (ok, TooMany, TooFew)
\* depends only on the set of option names given, not on the order of the
\* flags nor on which group option's check runs first; every option of the
\* group reaches the same verdict, and no step of the parameter processing
\* changes the mapping of the options given.
C11_OrderIndependent ==
    /\ [](GroupCommand =>
            LET v == Verdict(Check(ExclusiveOption(jar), NamesOnly(opts))) IN
            /\ v \in {"ok", "TooMany", "TooFew"}
            /\ \A d \in ExclusiveDecls(cmd) :
                 /\ Verdict(Check(d, opts)) = v
                 /\ Verdict(Check(d, NamesOnly(opts))) = v
                 /\ ValidatorRaised(d) => Verdict(raised) = v
                 /\ ValidatorPassed(d) => v = "ok")
    /\ [][pc # "idle" => opts' = opts]_vars

C11_Witness ==
    /\ cmd = "install"
    /\ DOMAIN opts = {cran_package, jar, cluster_id}
    /\ ValidatorRaised(ExclusiveOption(cran_package))
    /\ Verdict(raised) = "TooMany"
    /\ Verdict(Check(ExclusiveOption(egg), opts)) = "TooMany"

\* a name with every underscore written as a hyphen
Hyphenated(n) == [i \in DOMAIN n |-> IF n[i] = "_" THEN "-" ELSE n[i]]

\* the check of the option declared on its own has run
OptionChecked == cmd = "option" /\ (todo = <<>> \/ pc = "UsageError")

\* the names given that equal a member of group g once both are hyphenated
MembersBothSides(g) ==
    {k \in DOMAIN opts : \E i \in DOMAIN g : Hyphenated(k) = Hyphenated(g[i])}

\* the names given that, hyphenated, equal a member of group g as declared
MembersAsDeclared(g) ==
    {k \in DOMAIN opts : \E i \in DOMAIN g : Hyphenated(k) = g[i]}

\* C12 as stated: a name given counts as a member of the group whenever it
\* equals a member's name after replacing every '_' by '-' on both sides,
\* and the TooMany list leaves out the option's own name under the same
\* equivalence.
C12_EquivalentOnBothSides ==
    OptionChecked =>
      LET self == declared[1]
          g == self.mutually_exclusive
          n == Cardinality(MembersBothSides(g))
      IN
        /\ n = 1 => Verdict(raised) = "ok"
        /\ n = 0 => Verdict(raised) = "TooFew"
        /\ n > 1 =>
             raised = UsageError(
                <<"Illegal usage: ", Hyphenated(self.name),
                  " is mutually exclusive with arguments ",
                  SelectSeq(g, LAMBDA m : Hyphenated(m) # Hyphenated(self.name)), ".">>)

\* C12 amended: every '_' is replaced by '-' in the names given and in the
\* option's own name only; a name given counts as a member of the group
\* whenever, so rewritten, it equals a member as the group declares it (the
\* key maven_coordinates matches the member maven-coordinates), and the
\* TooMany list leaves out the members equal to the option's rewritten name.
C12_EquivalentOnGivenSide ==
    OptionChecked =>
      LET self == declared[1]
          g == self.mutually_exclusive
          n == Cardinality(MembersAsDeclared(g))
      IN
        /\ n = 1 => Verdict(raised) = "ok" /\ self.name \in DOMAIN params
        /\ n = 0 => Verdict(raised) = "TooFew"
        /\ n > 1 =>
             raised = UsageError(
                <<"Illegal usage: ", Hyphenated(self.name),
                  " is mutually exclusive with arguments ",
                  SelectSeq(g, LAMBDA m : m # Hyphenated(self.name)), ".">>)

C12_Witness ==
    /\ OptionChecked
    /\ declared[1].name = maven_coordinates
    /\ declared[1].mutually_exclusive = << <<"jar">>, <<"maven", "-", "coordinates">> >>
    /\ DOMAIN opts = {maven_coordinates}
    /\ maven_coordinates \in DOMAIN params
    /\ pc = "parse"

====
